---- MODULE Spec2Model ----
(***************************************************************************)
(* forbidden-donut: a terminal renderer of a rotating torus (src/main.rs). *)
(*                                                                         *)
(* The model follows main()'s frame loop statement by statement and the    *)
(* three FrameBuffer methods clear, write and poke_if, plus the free       *)
(* function dither.                                                        *)
(*                                                                         *)
(* Numbers.  f32 values are fixed-point integers in units of 1/Q.  The     *)
(* three dot products of a sample are in halves (-2..2 stands for -1..1).  *)
(* A NaN is the integer NaN, which no computation of the model produces,   *)
(* and every comparison with it is false, as in IEEE 754.  usize::MAX is   *)
(* UsizeMax (2^30-1 stands for 2^64-1: the model checker's integers have   *)
(* 32 bits); u16 keeps its width.  An integer overflow is defined in Rust: *)
(* a panic when overflow checks are compiled in, a wrap when not; both     *)
(* outcomes are successors of the step that overflows.                     *)
(*                                                                         *)
(* Geometry.  The projection of the torus (trigonometry on f32 matrices)   *)
(* is not computed: each sample's screen point, depth and dot products     *)
(* are drawn from representative sets, and everything after them (the      *)
(* cull tests, the lighting formula, the clamp, dither, the depth test)    *)
(* is computed as the code computes it.                                    *)
(***************************************************************************)
EXTENDS Integers, Sequences, FiniteSets, TLC

VARIABLES
    pc,                 \* main's position in the frame loop
    term,               \* <<columns, rows>> last reported by terminal::size()
    sx, sy,             \* FrameBuffer.sx, FrameBuffer.sy
    brightness,         \* FrameBuffer.brightness : Vec<u8>
    z_buffer,           \* FrameBuffer.z_buffer : Vec<f32>
    i,                  \* samples of the current frame already processed
    smp,                \* the current sample: p_screen, cam_vec.n, light, (ix, iy)
    global_transform,   \* number of rotations composed into global_transform
    out,                \* commands queued on stdout since the last flush
    fault,              \* why the process ended ("none" while it runs)
    calls,              \* FrameBuffer driver: the poke_if calls since the last clear
    d                   \* dither driver: the last call and its result

vars == <<pc, term, sx, sy, brightness, z_buffer, i, smp, global_transform,
          out, fault, calls, d>>

----------------------------------------------------------------------------
(* Bounds of the model *)

NumSamples == 1
MaxDepth == 2
MaxFrames == 2
MaxCalls == 3
MaxCount == 3

----------------------------------------------------------------------------
(* Number representation *)

Q == 32 * 25
NaN == 0 - 2^30
UsizeMax == 2^30 - 1
UsizeMod == UsizeMax + 1
U16Mod == 2^16

Min(a, b) == IF a <= b THEN a ELSE b
Max(a, b) == IF a >= b THEN a ELSE b

\* IEEE comparisons: false when either side is NaN.
FLt(a, b) == a # NaN /\ b # NaN /\ a < b
FGt(a, b) == a # NaN /\ b # NaN /\ a > b
FGe(a, b) == a # NaN /\ b # NaN /\ a >= b

\* f32::round on a value in units of 1/Q: nearest integer, halves away from zero.
FRound(v) ==
    IF v >= 0 THEN (2 * v + Q) \div (2 * Q)
    ELSE 0 - ((2 * (0 - v) + Q) \div (2 * Q))

----------------------------------------------------------------------------
(* Program constants *)

Far == -1000
CaptionOffset == 14
CaptionRow == 1
lightlevel_str == <<"-", "~", "+", "*", "=", ";", "%", "#", "$", "@">>
PaletteLen == Len(lightlevel_str)
Blank == " "
Newline == "\n"
Caption == "F O R B I D D E N D O N U T"
LightMax == (99 * Q) \div 100

----------------------------------------------------------------------------
(* Input sets *)

\* Terminal sizes: no columns, one column, and the narrowest terminal whose
\* caption column sx/2 - 14 does not underflow; no row, one row, two rows.
TermWidths == {0, 1, 2 * CaptionOffset}
TermHeights == {0, 1, 2}
TermSizes == TermWidths \X TermHeights

\* Random offsets gen::<f32>() - 0.5, in [-0.5, 0.5).
Offsets == {0 - (Q \div 2), 0, (Q \div 2) - 1}
FineOffsets == Offsets \cup {0 - (Q \div 4), Q \div 4}

\* Depths p_screen.z: 0.5 * min(sx, sy) * (1.0002 + 0.2 / (z_world + 4)) with
\* |z_world| <= 1.45 is positive, so above the sentinel; only their order matters.
Depths == 1..MaxDepth

\* Dot products of unit vectors, in halves.
Dots == {-2, 0, 2}

\* Screen coordinates along an axis of s cells: just left of the screen, at its left
\* edge (so that dither can round down to -1), inside the last cell (so that dither
\* can round up to s), and at s.
AxisCoords(s) == {0 - (Q \div 4), 0, s * Q - (Q \div 4), s * Q}

\* With sx = sy = 0 the aspect ratio is 0/0 and every coordinate is NaN.
ScreenPoints(w, h) ==
    IF w = 0 /\ h = 0 THEN {<<NaN, NaN>>}
    ELSE AxisCoords(w) \X AxisCoords(h)

----------------------------------------------------------------------------
(* Pure functions *)

relu(x) == IF x >= 0 THEN x ELSE 0

\* dither(i, clip) with the random offset u made explicit.  The result clip - 1 is
\* the mathematical one: -1 says that the usize subtraction underflowed (clip = 0).
ClampHighOff(r_i, clip) == IF r_i > clip THEN clip - 1 ELSE r_i
ClampHighNone(r_i, clip) == r_i
ClampHigh(r_i, clip) == IF r_i >= clip THEN clip - 1 ELSE r_i

dither(v, clip, u) ==
    LET r == IF v = NaN THEN NaN ELSE FRound(v + u)
    IN  IF FLt(r, 0) THEN 0
        ELSE LET r_i == IF r = NaN THEN 0 ELSE Min(r, UsizeMax)
             IN  ClampHigh(r_i, clip)

\* The Phong term of main, lines 161-171; nl, nc, lc are n.light_dir, n.cam_vec and
\* light_dir.cam_vec in halves, the result is in units of 1/Q:
\*   a = nl/2, r = 2 a (nc/2) - lc/2 = (a2 nc - lc)/2,
\*   0.75 a + 0.25 r^3 = (12 a2 + (a2 nc - lc)^3) / 32.
ClampLight(light) == IF light > LightMax THEN LightMax ELSE light

Light(nl, nc, lc) ==
    LET a == relu(nl)
        r == a * nc - lc
    IN  ClampLight((12 * a + r * r * r) * (Q \div 32))

\* The first cull test of main, lines 155-159.
FirstCullNoBackFace(x, y, nc, w, h) ==
    \/ FLt(x, 0)
    \/ FLt(y, 0)
    \/ FGe(x, w * Q)
    \/ FGe(y, h * Q)

FirstCull(x, y, nc, w, h) ==
    \/ FLt(x, 0)
    \/ FLt(y, 0)
    \/ nc > 0
    \/ FGe(x, w * Q)
    \/ FGe(y, h * Q)

\* Vec::clear and Vec::resize.
VecClearKeep(v) == v
VecClear(v) == << >>
VecResize(v, n, fill) == [k \in 1..n |-> IF k <= Len(v) THEN v[k] ELSE fill]

\* The loop of clear(), lines 69-71.
SetTerminators(b, w, h) ==
    [k \in 1..Len(b) |-> IF (k - 1) % (w + 1) = w /\ (k - 1) \div (w + 1) < h
                         THEN Newline ELSE b[k]]

\* The body of clear(), lines 64-71, on one buffer of a w x h terminal.
ClearZ(old, w, h) == VecResize(VecClear(old), h * (w + 1), Far)
ClearB(old, w, h) == SetTerminators(VecResize(VecClear(old), h * (w + 1), Blank), w, h)

\* The slice of write(), line 81.
WriteSlice(b, w, h) == SubSeq(b, 1, w * h)

\* The depth test of poke_if, line 92.
DepthTestLe(stored, z) == stored <= z
DepthTest(stored, z) == stored < z

PaletteChar(value, u) == lightlevel_str[dither(value * PaletteLen, PaletteLen, u) + 1]

NoSample == [x |-> 0, y |-> 0, z |-> 0, nc |-> 0, light |-> NaN, ix |-> 0, iy |-> 0]
NoDither == [value |-> 0, count |-> 0, u |-> 0, result |-> 0]
\* A queued sink operation: <<command, column, row, printed text>>.
Op(name, col, row, s) == <<name, col, row, s>>

----------------------------------------------------------------------------
(* The frame loop *)

\* The process ends: a panic or main returning Err.  Its buffers are dropped.
\* fault says why: "io" (a queue or the flush returned Err), "size" (the unwrap of
\* terminal::size()), "aspect" (new_perspective's assertion), "overflow" (an integer
\* overflow with overflow checks on), "index" (a Vec index out of range).
Exit(kind) ==
    /\ pc' = "exit"
    /\ fault' = kind
    /\ brightness' = << >>
    /\ z_buffer' = << >>
    /\ smp' = NoSample
    /\ i' = 0
    /\ UNCHANGED <<term, sx, sy, global_transform, out, calls, d>>

\* main up to the loop: cursor::Hide is queued twice (line 110, and line 48 in
\* FrameBuffer::new, which also reads the terminal size); the Vecs are empty.
Init ==
    /\ pc = "clear"
    /\ term \in TermSizes
    /\ sx = term[1]
    /\ sy = term[2]
    /\ brightness = << >>
    /\ z_buffer = << >>
    /\ i = 0
    /\ smp = NoSample
    /\ global_transform = 0
    /\ out = <<Op("Hide", 0, 0, << >>), Op("Hide", 0, 0, << >>)>>
    /\ fault = "none"
    /\ calls = << >>
    /\ d = NoDither

\* FrameBuffer::clear, called at line 116.
Clear ==
    /\ pc = "clear"
    /\ \/ \E size \in TermSizes :
            /\ term' = size
            /\ sx' = size[1]
            /\ sy' = size[2]
            /\ z_buffer' = ClearZ(z_buffer, size[1], size[2])
            /\ brightness' = ClearB(brightness, size[1], size[2])
            /\ pc' = "screenspace"
            /\ UNCHANGED <<i, smp, global_transform, out, fault, calls, d>>
       \/ Exit("size")

\* Lines 117-123: Matrix4::new_perspective panics on a zero aspect ratio.
Screenspace ==
    /\ pc = "screenspace"
    /\ IF Min(sx, sy) = 0 /\ Max(sx, sy) > 0
       THEN Exit("aspect")
       ELSE /\ pc' = "sample"
            /\ i' = 0
            /\ UNCHANGED <<term, sx, sy, brightness, z_buffer, smp,
                           global_transform, out, fault, calls, d>>

\* Lines 126-153 and 161-171: the sample's screen point and light.
Project ==
    /\ pc = "sample"
    /\ i < NumSamples
    /\ \E pt \in ScreenPoints(sx, sy), nl \in Dots, nc \in Dots, lc \in Dots :
          smp' = [x |-> pt[1], y |-> pt[2], z |-> 0, nc |-> nc,
                  light |-> IF FirstCull(pt[1], pt[2], nc, sx, sy)
                            THEN NaN ELSE Light(nl, nc, lc),
                  ix |-> 0, iy |-> 0]
    /\ pc' = "shade"
    /\ UNCHANGED <<term, sx, sy, brightness, z_buffer, i, global_transform,
                   out, fault, calls, d>>

NextSample ==
    /\ pc' = "sample"
    /\ i' = i + 1
    /\ smp' = NoSample

\* Lines 155-176: the cull tests and the two dithers of the screen position.  The
\* depth p_screen.z, which nothing reads before poke_if, is drawn here.
Shade ==
    /\ pc = "shade"
    /\ IF FirstCull(smp.x, smp.y, smp.nc, sx, sy) \/ ~ FGt(smp.light, 0)
       THEN /\ NextSample
            /\ UNCHANGED <<term, sx, sy, brightness, z_buffer, global_transform,
                           out, fault, calls, d>>
       ELSE \E ux \in Offsets, uy \in Offsets, z \in Depths :
              LET dx == dither(smp.x, sx, ux)
                  dy == dither(smp.y, sy, uy)
                  Go == /\ smp' = [smp EXCEPT !.ix = dx % UsizeMod,
                                              !.iy = dy % UsizeMod, !.z = z]
                        /\ pc' = "poke"
                        /\ UNCHANGED <<term, sx, sy, brightness, z_buffer, i,
                                       global_transform, out, fault, calls, d>>
              IN  IF dx < 0 \/ dy < 0
                  THEN Exit("overflow") \/ Go
                  ELSE Go

\* FrameBuffer::poke_if(x, y, value, z), lines 86-97, on the buffers; u is the
\* offset its dither draws.  The result is the pair <<brightness, z_buffer>>.
poke_if(x, y, value, z, u) ==
    LET ix == y * (sx + 1) + x
    IN  IF DepthTest(z_buffer[ix + 1], z)
        THEN <<[brightness EXCEPT ![ix + 1] = PaletteChar(value, u)],
               [z_buffer EXCEPT ![ix + 1] = z]>>
        ELSE <<brightness, z_buffer>>

\* Line 177: the call of poke_if, with its index arithmetic and bounds check.
PokeIf ==
    /\ pc = "poke"
    /\ LET ix == smp.iy * (sx + 1) + smp.ix
           Index(k) ==
               IF k >= Len(z_buffer)
               THEN Exit("index")
               ELSE \E u \in Offsets :
                      LET r == poke_if(smp.ix, smp.iy, smp.light, smp.z, u)
                      IN  /\ brightness' = r[1]
                          /\ z_buffer' = r[2]
                          /\ NextSample
                          /\ UNCHANGED <<term, sx, sy, global_transform, out,
                                         fault, calls, d>>
       IN  IF ix > UsizeMax
           THEN Exit("overflow") \/ Index(ix % UsizeMod)
           ELSE Index(ix)

AdvanceOnce ==
    /\ pc = "sample"
    /\ i = NumSamples
    /\ global_transform' = global_transform + 1
    /\ pc' = "write_clear"
    /\ UNCHANGED <<term, sx, sy, brightness, z_buffer, i, smp, out, fault, calls, d>>

\* Lines 183-184: the two rotations composed into the global transform.
Advance ==
    /\ pc = "sample"
    /\ i = NumSamples
    /\ global_transform' = global_transform + 2
    /\ pc' = "write_clear"
    /\ UNCHANGED <<term, sx, sy, brightness, z_buffer, i, smp, out, fault, calls, d>>

\* stdout.queue(command)?: the command is queued, or main returns the error.
SinkFailRetry ==
    /\ fault' = "io"
    /\ UNCHANGED <<pc, term, sx, sy, brightness, z_buffer, i, smp,
                   global_transform, out, calls, d>>

SinkFail == Exit("io")

Queue(from, to, op) ==
    /\ pc = from
    /\ \/ /\ out' = Append(out, op)
          /\ pc' = to
          /\ UNCHANGED <<term, sx, sy, brightness, z_buffer, i, smp,
                         global_transform, fault, calls, d>>
       \/ SinkFail

\* FrameBuffer::write, lines 74-84.
WriteClear == Queue("write_clear", "write_move", Op("Clear", 0, 0, << >>))
WriteMoveTo == Queue("write_move", "write_print", Op("MoveTo", 0, 0, << >>))
WritePrint ==
    Queue("write_print", "cap1_move", Op("Print", 0, 0, WriteSlice(brightness, sx, sy)))

\* Lines 187-190: the caption, its cursor position in u16 arithmetic.
CaptionCol == ((sx % U16Mod) \div 2) - CaptionOffset
CaptionLastRow == (sy % U16Mod) - 1

MoveCaption(from, to, col, row) ==
    LET Go == Queue(from, to, Op("MoveTo", col % U16Mod, row % U16Mod, << >>))
    IN  IF col < 0 \/ row < 0
        THEN (pc = from /\ Exit("overflow")) \/ Go
        ELSE Go

Caption1Move == MoveCaption("cap1_move", "cap1_print", CaptionCol, CaptionRow)
Caption1Print == Queue("cap1_print", "cap2_move", Op("Print", 0, 0, <<Caption>>))
Caption2Move == MoveCaption("cap2_move", "cap2_print", CaptionCol, CaptionLastRow)
Caption2Print == Queue("cap2_print", "flush", Op("Print", 0, 0, <<Caption>>))

\* Line 192: stdout.flush()?
Flush ==
    /\ pc = "flush"
    /\ \/ /\ out' = << >>
          /\ pc' = "sleep"
          /\ UNCHANGED <<term, sx, sy, brightness, z_buffer, i, smp,
                         global_transform, fault, calls, d>>
       \/ SinkFail

\* Line 193 and the back edge of the loop.
Sleep ==
    /\ pc = "sleep"
    /\ global_transform < 2 * MaxFrames
    /\ pc' = "clear"
    /\ UNCHANGED <<term, sx, sy, brightness, z_buffer, i, smp, global_transform,
                   out, fault, calls, d>>

Next ==
    \/ Clear
    \/ Screenspace
    \/ Project
    \/ Shade
    \/ PokeIf
    \/ Advance
    \/ WriteClear
    \/ WriteMoveTo
    \/ WritePrint
    \/ Caption1Move
    \/ Caption1Print
    \/ Caption2Move
    \/ Caption2Print
    \/ Flush
    \/ Sleep

Spec == Init /\ [][Next]_vars

\* The program is one thread that never waits for anything but its own sleep.
FairSpec == Spec /\ WF_vars(Next)

----------------------------------------------------------------------------
(* FrameBuffer driven directly: clear and poke_if with the arguments main passes *)
(* (a cell of the buffer, a light in (0, 0.99], a depth above the sentinel).     *)

DriverSizes == {<<1, 1>>, <<2, 1>>}
DriverLights == {Light(0, 0, -2), Light(2, 0, -2)}
DriverOffsets == {0 - (Q \div 2), (Q \div 2) - 1}

InitDriver ==
    /\ pc = "driver"
    /\ term \in DriverSizes
    /\ sx = term[1]
    /\ sy = term[2]
    /\ brightness = ClearB(<< >>, term[1], term[2])
    /\ z_buffer = ClearZ(<< >>, term[1], term[2])
    /\ i = 0
    /\ smp = NoSample
    /\ global_transform = 0
    /\ out = << >>
    /\ fault = "none"
    /\ calls = << >>
    /\ d = NoDither

DriverClear ==
    /\ pc = "driver"
    /\ \E size \in DriverSizes :
          /\ term' = size
          /\ sx' = size[1]
          /\ sy' = size[2]
          /\ z_buffer' = ClearZ(z_buffer, size[1], size[2])
          /\ brightness' = ClearB(brightness, size[1], size[2])
    /\ calls' = << >>
    /\ UNCHANGED <<pc, i, smp, global_transform, out, fault, d>>

DriverPoke ==
    /\ pc = "driver"
    /\ Len(calls) < MaxCalls
    /\ \E x \in 0..(sx - 1), y \in 0..(sy - 1), value \in DriverLights,
          z \in Depths, u \in DriverOffsets :
          LET r == poke_if(x, y, value, z, u)
          IN  /\ brightness' = r[1]
              /\ z_buffer' = r[2]
              /\ calls' = Append(calls, [x |-> x, y |-> y, value |-> value,
                                         z |-> z, u |-> u])
    /\ UNCHANGED <<pc, term, sx, sy, i, smp, global_transform, out, fault, d>>

NextDriver == DriverClear \/ DriverPoke

SpecPoke == InitDriver /\ [][NextDriver]_vars

----------------------------------------------------------------------------
(* dither driven directly *)

DitherValues ==
    {k * (Q \div 4) : k \in (0 - 8)..(4 * (MaxCount + 1))}
        \cup {(0 - 5) * Q, 1000 * Q, NaN}
DitherCounts == (0..MaxCount) \cup {PaletteLen}

InitDither ==
    /\ pc = "dither"
    /\ term = <<0, 0>>
    /\ sx = 0
    /\ sy = 0
    /\ brightness = << >>
    /\ z_buffer = << >>
    /\ i = 0
    /\ smp = NoSample
    /\ global_transform = 0
    /\ out = << >>
    /\ fault = "none"
    /\ calls = << >>
    /\ d = NoDither

DitherCall ==
    /\ pc = "dither"
    /\ \E v \in DitherValues, clip \in DitherCounts, u \in FineOffsets :
          d' = [value |-> v, count |-> clip, u |-> u, result |-> dither(v, clip, u)]
    /\ UNCHANGED <<pc, term, sx, sy, brightness, z_buffer, i, smp,
                   global_transform, out, fault, calls>>

NextDither == DitherCall

SpecDither == InitDither /\ [][NextDither]_vars

----------------------------------------------------------------------------
(* Claims *)

\* The fields of a queued sink operation.
OpName(o) == o[1]
OpCol(o) == o[2]
OpRow(o) == o[3]
OpText(o) == o[4]

Cell(x, y) == y * (sx + 1) + x + 1
IsTerminator(k) == (k - 1) % (sx + 1) = sx
Palette == {lightlevel_str[k] : k \in 1..PaletteLen}

\* C1 (SpecPoke).  After any sequence of poke_if calls since the last clear, each
\* cell's stored depth is the largest depth passed for that cell and its character
\* is the palette character chosen, from the light passed with it, by the first
\* call that passed that largest depth; a cell no call named keeps the sentinel
\* and the blank.
CellCalls(x, y) == {k \in 1..Len(calls) : calls[k].x = x /\ calls[k].y = y}
MaxDepthOf(ks) == CHOOSE z \in {calls[k].z : k \in ks} : \A k \in ks : calls[k].z <= z
FirstAt(ks, z) ==
    CHOOSE k \in ks : calls[k].z = z /\ \A j \in ks : calls[j].z = z => k <= j

C1_DepthTestMax ==
    pc = "driver" =>
        \A x \in 0..(sx - 1), y \in 0..(sy - 1) :
            LET ks == CellCalls(x, y)
            IN  IF ks = {}
                THEN z_buffer[Cell(x, y)] = Far /\ brightness[Cell(x, y)] = Blank
                ELSE LET zmax == MaxDepthOf(ks)
                         first == FirstAt(ks, zmax)
                     IN  /\ z_buffer[Cell(x, y)] = zmax
                         /\ brightness[Cell(x, y)] =
                                PaletteChar(calls[first].value, calls[first].u)

\* A cell has taken three calls: a lower depth first, then the largest depth twice,
\* the two with different characters.
C1_Witness ==
    /\ pc = "driver"
    /\ Len(calls) = 3
    /\ calls[1].x = calls[2].x /\ calls[2].x = calls[3].x
    /\ calls[1].z < calls[2].z /\ calls[2].z = calls[3].z
    /\ PaletteChar(calls[2].value, calls[2].u) # PaletteChar(calls[3].value, calls[3].u)

\* C2 (SpecDither).  For every value, every count >= 1 and every offset in
\* [-0.5, 0.5), dither returns an integer in 0..count-1: 0 when the rounded sum is
\* below 0, count-1 when it is at or above count; dither(-5.0, 10) = 0 and
\* dither(1000.0, 10) = 9 for every offset.
C2_DitherRange ==
    (pc = "dither" /\ d.count >= 1) =>
        /\ d.result \in 0..(d.count - 1)
        /\ (d.value # NaN /\ FRound(d.value + d.u) < 0) => d.result = 0
        /\ (d.value # NaN /\ FRound(d.value + d.u) >= d.count) => d.result = d.count - 1
        /\ (d.value = (0 - 5) * Q /\ d.count = 10) => d.result = 0
        /\ (d.value = 1000 * Q /\ d.count = 10) => d.result = 9

\* The rounded sum is exactly count, and the result is count - 1.
C2_Witness ==
    /\ pc = "dither"
    /\ d.count >= 2
    /\ d.value # NaN
    /\ FRound(d.value + d.u) = d.count
    /\ d.result = d.count - 1

\* C3 (Spec).  Immediately after clear(): sx and sy are the terminal's size, both
\* buffers have length sy*(sx+1), every depth is the sentinel and every byte is a
\* blank, but the line terminator that ends each row.
C3_ClearResets ==
    pc = "screenspace" =>
        /\ sx = term[1]
        /\ sy = term[2]
        /\ Len(z_buffer) = sy * (sx + 1)
        /\ Len(brightness) = sy * (sx + 1)
        /\ \A k \in 1..Len(z_buffer) : z_buffer[k] = Far
        /\ \A k \in 1..Len(brightness) :
              brightness[k] = IF IsTerminator(k) THEN Newline ELSE Blank

\* A clear of a later frame, on a terminal with cells.
C3_Witness ==
    /\ pc = "screenspace"
    /\ global_transform > 0
    /\ sx >= 1
    /\ sy >= 1

\* C4 (Spec).  A culled sample (back-facing, off the screen, or with a computed
\* light <= 0) never reaches poke_if and leaves both buffers as they are; a sample
\* that reaches poke_if is none of these and its light is in (0, 0.99]; the buffers
\* change only in clear, in poke_if and when the process ends.
Culled(s) ==
    \/ s.nc > 0
    \/ FLt(s.x, 0)
    \/ FLt(s.y, 0)
    \/ FGe(s.x, sx * Q)
    \/ FGe(s.y, sy * Q)
    \/ (s.light # NaN /\ s.light <= 0)

C4_CulledNeverDrawn ==
    [][ /\ (pc = "shade" /\ Culled(smp)) =>
              (pc' # "poke" /\ brightness' = brightness /\ z_buffer' = z_buffer)
        /\ pc' = "poke" =>
              (~ Culled(smp') /\ smp'.light # NaN /\ smp'.light > 0
                 /\ smp'.light <= LightMax)
        /\ (brightness' # brightness \/ z_buffer' # z_buffer) =>
              (pc \in {"clear", "poke"} \/ pc' = "exit")
      ]_vars

\* A back-facing sample on the screen is about to be tested.
C4_Witness ==
    /\ pc = "shade"
    /\ smp.nc > 0
    /\ sx >= 1
    /\ sy >= 1
    /\ smp.x >= 0 /\ smp.x < sx * Q
    /\ smp.y >= 0 /\ smp.y < sy * Q

\* C5 (Spec).  With sx = 0 or sy = 0 the frame draws nothing and raises no
\* arithmetic failure and no out-of-range index.
C5_ZeroSizeGuarded ==
    (sx = 0 \/ sy = 0) => fault \notin {"aspect", "overflow", "index"}

\* C6 (Spec).  The string write() prints holds every cell (x, y), x < sx, y < sy,
\* of the character buffer, at its row-major place.
C6_WholeBufferPrinted ==
    pc = "cap1_move" =>
        LET s == OpText(out[Len(out)])
        IN  \A x \in 0..(sx - 1), y \in 0..(sy - 1) :
                Cell(x, y) <= Len(s) /\ s[Cell(x, y)] = brightness[Cell(x, y)]

PhaseOf(p) ==
    CASE p \in {"clear", "screenspace"} -> 0
      [] p \in {"sample", "shade", "poke"} -> 1
      [] p \in {"write_clear", "write_move", "write_print", "cap1_move",
                "cap1_print", "cap2_move", "cap2_print", "flush"} -> 2
      [] p = "sleep" -> 3
      [] OTHER -> 4

C8_SinkFailureEnds ==
    [][ /\ fault = "none"
        /\ fault' \in {"io", "size"} =>
              (pc' = "exit" /\ out' = out /\ global_transform' = global_transform)
      ]_vars

\* A sink operation failed after the buffer was printed: the caption or the flush.
C8_Witness ==
    /\ fault = "io"
    /\ pc = "exit"
    /\ \E k \in 1..Len(out) : OpName(out[k]) = "Print" /\ OpText(out[k]) # <<Caption>>

\* C9 (Spec).  With sx >= 1 and sy >= 1 no unsigned computation of the frame leaves
\* its range and every caption cursor position is inside the terminal.
C9_ArithmeticInRange ==
    (sx >= 1 /\ sy >= 1) =>
        /\ fault # "overflow"
        /\ \A k \in 1..Len(out) :
              (OpName(out[k]) = "MoveTo") => (OpCol(out[k]) < sx /\ OpRow(out[k]) < sy)

\* C10 (Spec).  Between clear() and the next clear(), with sx >= 1 and sy >= 1: a
\* call of poke_if has x < sx and y < sy, the buffer has sy*(sx+1) bytes, every
\* terminator slot holds the newline and every other byte is a blank or a character
\* of the palette.
C10_BufferWellFormed ==
    (sx >= 1 /\ sy >= 1 /\ pc \notin {"clear", "exit", "driver", "dither"}) =>
        /\ Len(brightness) = sy * (sx + 1)
        /\ Len(z_buffer) = sy * (sx + 1)
        /\ \A k \in 1..Len(brightness) :
              IF IsTerminator(k) THEN brightness[k] = Newline
              ELSE brightness[k] \in Palette \cup {Blank}
        /\ pc = "poke" =>
              (smp.ix < sx /\ smp.iy < sy /\ ~ IsTerminator(Cell(smp.ix, smp.iy)))

\* The last cell of the last row holds a palette character: dither rounded the
\* coordinate sx - 0.25 down to sx - 1 or up to sx, and clamped.
C10_Witness ==
    /\ pc = "write_clear"
    /\ sx >= 2
    /\ sy >= 2
    /\ brightness[Cell(sx - 1, sy - 1)] \in Palette

====
